---- MODULE Spec2Model ----
(***************************************************************************)
(* Quine-McCluskey prime implicant generation of src/QuinMcAlgo.py:        *)
(* QuinMcAlgo.combine_terms, QuinMcAlgo.group_by_ones and the round loop   *)
(* of QuinMcAlgo.minimize.                                                 *)
(*                                                                         *)
(* A term is a sequence of symbols "0", "1", "-" (a Python str, one        *)
(* character per element).  A dict is a function whose DOMAIN is its key   *)
(* set; a dict value (a Python list) is a sequence.                        *)
(***************************************************************************)
EXTENDS Integers, Sequences, FiniteSets, TLC

\* num_vars of main(): the number of variables of the instance it constructs.
NumVars == 4
\* A sparse input list holds at most MaxMinterms distinct minterms.
MaxMinterms == 5
\* A dense input list lacks at most MaxMissing of the 2^num_vars minterms.
MaxMissing == 1
\* Largest length of a term handed directly to combine_terms.
MaxTermLen == 3
\* Cap on the counter of loop-body executions.
MaxRounds == 6

VARIABLES
    num_vars,          \* self.num_vars
    minterms,          \* the argument of minimize (a list)
    groups,            \* dict: key -> list of terms
    unchecked,         \* set of terms: the current generation
    checked,           \* set of terms: the accumulated result set
    prime_implicants,  \* set of terms
    next_groups,       \* dict built during a round
    used,              \* set of terms combined in the current round
    group_keys,        \* sorted(groups.keys()) of the current round
    pair,              \* position of the for loop over zip(group_keys, group_keys[1:])
    pc,                \* control point of minimize
    result,            \* elements of the returned list
    rounds,            \* history: number of executions of the while body
    everUsed,          \* history: every term ever added to used
    term1, term2,      \* arguments of a direct combine_terms call
    combined,          \* value returned by that call
    cpc                \* control point of that call

vars == <<num_vars, minterms, groups, unchecked, checked, prime_implicants,
          next_groups, used, group_keys, pair, pc, result, rounds, everUsed,
          term1, term2, combined, cpc>>

minVars == <<num_vars, minterms, groups, unchecked, checked, prime_implicants,
             next_groups, used, group_keys, pair, pc, result, rounds, everUsed>>

combVars == <<term1, term2, combined, cpc>>

-----------------------------------------------------------------------------
(* Values *)

Sym == {"0", "1", "-"}
Bit == {"0", "1"}

\* Python's None; no term contains this symbol.
None == <<"None">>

\* All terms of length n over {'0','1','-'}, and all minterms of length n.
Terms(n) == [1..n -> Sym]
Minterms(n) == [1..n -> Bit]

EmptyDict == [k \in {} |-> <<>>]

Range(s) == {s[i] : i \in 1..Len(s)}

Min(a, b) == IF a <= b THEN a ELSE b

-----------------------------------------------------------------------------
(* combine_terms *)

\* The for loop over zip(term1, term2) from position i on: acc is the list
\* `combined`, found is `found_difference`; n is the length of the zip.
\* Variant: the differing position keeps the symbol of the second term.
RECURSIVE CombineLoopKeepBit(_, _, _, _, _, _)
CombineLoopKeepBit(t1, t2, n, i, acc, found) ==
    IF i > n THEN acc
    ELSE IF t1[i] = t2[i]
         THEN CombineLoopKeepBit(t1, t2, n, i + 1, Append(acc, t1[i]), found)
    ELSE IF ~found THEN CombineLoopKeepBit(t1, t2, n, i + 1, Append(acc, t2[i]), TRUE)
    ELSE None

\* Variant: a '-' of the first term matches any symbol of the second.
RECURSIVE CombineLoopWildcard(_, _, _, _, _, _)
CombineLoopWildcard(t1, t2, n, i, acc, found) ==
    IF i > n THEN acc
    ELSE IF t1[i] = t2[i] \/ t1[i] = "-"
         THEN CombineLoopWildcard(t1, t2, n, i + 1, Append(acc, t1[i]), found)
    ELSE IF ~found THEN CombineLoopWildcard(t1, t2, n, i + 1, Append(acc, "-"), TRUE)
    ELSE None

RECURSIVE CombineLoop(_, _, _, _, _, _)
CombineLoop(t1, t2, n, i, acc, found) ==
    IF i > n THEN acc
    ELSE IF t1[i] = t2[i] THEN CombineLoop(t1, t2, n, i + 1, Append(acc, t1[i]), found)
    ELSE IF ~found THEN CombineLoop(t1, t2, n, i + 1, Append(acc, "-"), TRUE)
    ELSE None

\* zip stops at the end of the shorter argument.
ZipLen(t1, t2) == Min(Len(t1), Len(t2))

combine_terms(t1, t2) == CombineLoop(t1, t2, ZipLen(t1, t2), 1, <<>>, FALSE)

\* Python truthiness of a value returned by combine_terms (`if combined:`).
Truthy(c) == c # None /\ c # <<>>

-----------------------------------------------------------------------------
(* group_by_ones *)

\* term.count('1')
Ones(t) == Cardinality({i \in 1..Len(t) : t[i] = "1"})

\* d.setdefault(k, []).append(t)
DictAppend(d, k, t) ==
    [x \in DOMAIN d \cup {k} |->
        IF x = k THEN Append(IF k \in DOMAIN d THEN d[k] ELSE <<>>, t) ELSE d[x]]

RECURSIVE GroupLoop(_, _, _)
GroupLoop(terms, i, d) ==
    IF i > Len(terms) THEN d
    ELSE GroupLoop(terms, i + 1, DictAppend(d, Ones(terms[i]), terms[i]))

group_by_ones(terms) == GroupLoop(terms, 1, EmptyDict)

-----------------------------------------------------------------------------
(* helpers of minimize *)

\* sorted(S) for a set of integers.
RECURSIVE SortedInts(_)
SortedInts(S) ==
    IF S = {} THEN <<>>
    ELSE LET m == CHOOSE x \in S : \A y \in S : x <= y
         IN <<m>> \o SortedInts(S \ {m})

\* Number of pairs produced by zip(group_keys, group_keys[1:]).
NumPairs(keys) == IF Len(keys) = 0 THEN 0 ELSE Len(keys) - 1

\* Variant: the two lists are walked in step (zip) instead of nested.
CrossZip(l1, l2) ==
    [k \in 1..Min(Len(l1), Len(l2)) |-> <<l1[k], l2[k]>>]

\* The nested loops `for term1 in l1: for term2 in l2:` as the list of pairs
\* visited, in order.
Cross(l1, l2) ==
    [k \in 1..(Len(l1) * Len(l2)) |->
        <<l1[((k - 1) \div Len(l2)) + 1], l2[((k - 1) % Len(l2)) + 1]>>]

\* The pairs of Cross whose combination is truthy, in order.
Hits(l1, l2) ==
    SelectSeq(Cross(l1, l2), LAMBDA p : Truthy(combine_terms(p[1], p[2])))

\* Variant: the combined terms are stored under the higher source key.
AddCombinedHigher(ng, g1, hits) ==
    IF Len(hits) = 0 THEN ng
    ELSE [x \in DOMAIN ng \cup {g1 + 1} |->
            IF x = g1 + 1
            THEN (IF g1 + 1 \in DOMAIN ng THEN ng[g1 + 1] ELSE <<>>)
                 \o [k \in 1..Len(hits) |-> combine_terms(hits[k][1], hits[k][2])]
            ELSE ng[x]]

\* next_groups after the nested loops for one (g1, g2).
AddCombined(ng, g1, hits) ==
    IF Len(hits) = 0 THEN ng
    ELSE [x \in DOMAIN ng \cup {g1} |->
            IF x = g1
            THEN (IF g1 \in DOMAIN ng THEN ng[g1] ELSE <<>>)
                 \o [k \in 1..Len(hits) |-> combine_terms(hits[k][1], hits[k][2])]
            ELSE ng[x]]

\* Variant: only term1 is marked used.
AddUsedFirstOnly(u, hits) == u \cup {hits[k][1] : k \in 1..Len(hits)}

\* used after the nested loops for one (g1, g2).
AddUsed(u, hits) == u \cup {hits[k][1] : k \in 1..Len(hits)}
                      \cup {hits[k][2] : k \in 1..Len(hits)}

\* set(itertools.chain(*d.values()))
ChainSet(d) == UNION {Range(d[k]) : k \in DOMAIN d}

\* Variant: checked is overwritten instead of accumulated.
NewCheckedOverwrite(c, unc, u) == unc \ u

\* Variant: the used terms are not removed.
NewCheckedKeepUsed(c, unc, u) == c \cup unc

\* checked |= unchecked - used
NewChecked(c, unc, u) == c \cup (unc \ u)

\* Variant: groups is left as it was.
NewGroupsStale(g, ng) == g

\* groups = next_groups
NewGroups(g, ng) == ng

-----------------------------------------------------------------------------
(* inputs *)

\* The number a minterm denotes; orders the input lists.
RECURSIVE Val(_)
Val(t) == IF Len(t) = 0 THEN 0
          ELSE 2 * Val(SubSeq(t, 1, Len(t) - 1)) + (IF t[Len(t)] = "1" THEN 1 ELSE 0)

RECURSIVE Ascending(_)
Ascending(S) ==
    IF S = {} THEN <<>>
    ELSE LET m == CHOOSE x \in S : \A y \in S : Val(x) <= Val(y)
         IN <<m>> \o Ascending(S \ {m})

Reverse(s) == [i \in 1..Len(s) |-> s[Len(s) + 1 - i]]

\* The sets of minterms of n variables the inputs are drawn from: the sparse
\* ones and the dense ones.
InputSets(n) ==
    {T \in SUBSET Minterms(n) : Cardinality(T) <= MaxMinterms}
    \cup {Minterms(n) \ M : M \in {T \in SUBSET Minterms(n) : Cardinality(T) <= MaxMissing}}

\* The lists handed to minimize for n variables: each input set in ascending
\* order, and in descending order with its first element repeated at the end
\* (a list may hold a minterm twice).
InputLists(n) ==
    UNION {
        LET a == Ascending(S)
        IN  {a} \cup (IF S = {} THEN {} ELSE {Reverse(a) \o <<a[Len(a)]>>})
        : S \in InputSets(n)}

-----------------------------------------------------------------------------
(* minimize *)

CombIdle ==
    /\ term1 = <<>>
    /\ term2 = <<>>
    /\ combined = None
    /\ cpc = "idle"

\* QuinMcAlgo(num_vars) constructed; minimize about to be called on a list of
\* minterms of length num_vars.
Init ==
    /\ num_vars \in 0..NumVars
    /\ minterms \in InputLists(num_vars)
    /\ groups = EmptyDict
    /\ unchecked = {}
    /\ checked = {}
    /\ prime_implicants = {}
    /\ next_groups = EmptyDict
    /\ used = {}
    /\ group_keys = <<>>
    /\ pair = 0
    /\ pc = "start"
    /\ result = {}
    /\ rounds = 0
    /\ everUsed = {}
    /\ CombIdle

\* Lines 34-37.
Begin ==
    /\ pc = "start"
    /\ groups' = group_by_ones(minterms)
    /\ unchecked' = Range(minterms)
    /\ checked' = {}
    /\ prime_implicants' = {}
    /\ pc' = "while"
    /\ UNCHANGED <<num_vars, minterms, next_groups, used, group_keys, pair,
                   result, rounds, everUsed>>
    /\ UNCHANGED combVars

\* Lines 39-43: the loop condition holds; the round starts.
RoundStart ==
    /\ pc = "while"
    /\ DOMAIN groups # {}
    /\ rounds < MaxRounds
    /\ next_groups' = EmptyDict
    /\ used' = {}
    /\ group_keys' = SortedInts(DOMAIN groups)
    /\ pair' = 1
    /\ rounds' = rounds + 1
    /\ pc' = "for"
    /\ UNCHANGED <<num_vars, minterms, groups, unchecked, checked,
                   prime_implicants, result, everUsed>>
    /\ UNCHANGED combVars

\* Lines 44-51: one iteration of the loop over zip(group_keys, group_keys[1:]).
ComparePair ==
    /\ pc = "for"
    /\ pair <= NumPairs(group_keys)
    /\ LET g1 == group_keys[pair]
           g2 == group_keys[pair + 1]
           hits == Hits(groups[g1], groups[g2])
       IN  /\ next_groups' = AddCombined(next_groups, g1, hits)
           /\ used' = AddUsed(used, hits)
           /\ everUsed' = AddUsed(everUsed, hits)
    /\ pair' = pair + 1
    /\ UNCHANGED <<num_vars, minterms, groups, unchecked, checked,
                   prime_implicants, group_keys, pc, result, rounds>>
    /\ UNCHANGED combVars

\* Lines 53-55: the loop over the pairs is exhausted; the round ends.
EndRound ==
    /\ pc = "for"
    /\ pair > NumPairs(group_keys)
    /\ checked' = NewChecked(checked, unchecked, used)
    /\ unchecked' = ChainSet(next_groups)
    /\ groups' = NewGroups(groups, next_groups)
    /\ pc' = "while"
    /\ UNCHANGED <<num_vars, minterms, prime_implicants, next_groups, used,
                   group_keys, pair, result, rounds, everUsed>>
    /\ UNCHANGED combVars

\* Lines 39, 57-58: the loop condition fails; the list of prime_implicants is
\* returned (its order is that of a set iteration: result holds its elements).
Return ==
    /\ pc = "while"
    /\ DOMAIN groups = {}
    /\ prime_implicants' = prime_implicants \cup checked
    /\ result' = prime_implicants \cup checked
    /\ pc' = "done"
    /\ UNCHANGED <<num_vars, minterms, groups, unchecked, checked, next_groups,
                   used, group_keys, pair, rounds, everUsed>>
    /\ UNCHANGED combVars

Next == Begin \/ RoundStart \/ ComparePair \/ EndRound \/ Return

Spec == Init /\ [][Next]_vars

-----------------------------------------------------------------------------
(* combine_terms called directly *)

MinIdle ==
    /\ num_vars = 0
    /\ minterms = <<>>
    /\ groups = EmptyDict
    /\ unchecked = {}
    /\ checked = {}
    /\ prime_implicants = {}
    /\ next_groups = EmptyDict
    /\ used = {}
    /\ group_keys = <<>>
    /\ pair = 0
    /\ pc = "idle"
    /\ result = {}
    /\ rounds = 0
    /\ everUsed = {}

AnyTerm == UNION {Terms(n) : n \in 0..MaxTermLen}

InitCombine ==
    /\ MinIdle
    /\ term1 \in AnyTerm
    /\ term2 \in AnyTerm
    /\ combined = None
    /\ cpc = "call"

\* Lines 79-91: the call runs to its return statement; the function has no
\* raise statement, so "returned" is its only outcome.
CallCombine ==
    /\ cpc = "call"
    /\ combined' = combine_terms(term1, term2)
    /\ cpc' = "returned"
    /\ UNCHANGED <<term1, term2>>
    /\ UNCHANGED minVars

NextCombine == CallCombine

SpecCombine == InitCombine /\ [][NextCombine]_vars

-----------------------------------------------------------------------------
(* Properties *)

\* Number of positions in which two terms of equal length differ.
Differ(a, b) == Cardinality({i \in 1..Len(a) : a[i] # b[i]})

\* a with position i replaced by '-'.
Dashed(a, i) == [a EXCEPT ![i] = "-"]

\* t subsumes minterm m: every non-'-' position of t equals that of m.
Subsumes(t, m) == \A i \in 1..Len(t) : t[i] = "-" \/ t[i] = m[i]

\* Every minterm t subsumes is in S.
Implicant(t, S) == \A m \in Minterms(Len(t)) : Subsumes(t, m) => m \in S

\* t is an implicant of S and no one-position generalisation of t is.
IsPrime(t, S) ==
    /\ Implicant(t, S)
    /\ \A i \in 1..Len(t) : t[i] # "-" => ~Implicant(Dashed(t, i), S)

PrimeImplicants(n, S) == {t \in Terms(n) : IsPrime(t, S)}

Dashes(t) == Cardinality({i \in 1..Len(t) : t[i] = "-"})

\* C1: the list minimize returns holds exactly the prime implicants of the
\* input function: the terms all of whose subsumed minterms are in the input
\* and none of whose one-position generalisations has that property.
C1_ResultIsPrimeImplicants ==
    pc = "done" => result = PrimeImplicants(num_vars, Range(minterms))

C1_Witness ==
    /\ pc = "done"
    /\ \E t \in result : Dashes(t) = 0
    /\ \E t \in result : Dashes(t) >= 2
    /\ rounds >= 3

\* C2: every input minterm is subsumed by at least one term of the list
\* minimize returns.
C2_CoverageComplete ==
    pc = "done" => \A m \in Range(minterms) : \E t \in result : Subsumes(t, m)

C2_Witness ==
    /\ pc = "done"
    /\ \E m \in Range(minterms) : m \notin result
    /\ \E m \in Range(minterms) : m \in result

\* C3: the while loop of minimize terminates, and its body executes at most
\* num_vars + 1 times: the number of executions never exceeds num_vars + 1,
\* and the loop condition evaluated after execution num_vars + 1 is false.
C3_TerminatesWithinRounds ==
    /\ rounds <= num_vars + 1
    /\ (pc = "while" /\ rounds = num_vars + 1) => DOMAIN groups = {}

C3_Witness ==
    /\ pc = "done"
    /\ num_vars = NumVars
    /\ rounds = num_vars + 1

\* C4: for equal-length terms that differ in exactly one position i,
\* combine_terms returns the first term with position i replaced by '-'.
C4_SingleDifference ==
    (cpc = "returned" /\ Len(term1) = Len(term2) /\ Differ(term1, term2) = 1)
        => \E i \in 1..Len(term1) : term1[i] # term2[i] /\ combined = Dashed(term1, i)

C4_Witness ==
    /\ cpc = "returned"
    /\ Len(term1) = MaxTermLen
    /\ Len(term2) = MaxTermLen
    /\ Differ(term1, term2) = 1
    /\ term1[2] # term2[2]
    /\ term1[1] = "-"

\* C5: for equal-length terms that differ in no position or in two or more
\* positions, combine_terms returns None.
C5_NoCombination ==
    (cpc = "returned" /\ Len(term1) = Len(term2) /\ Differ(term1, term2) # 1)
        => combined = None

\* C6: a call of combine_terms with terms of unequal length does not return
\* a value: it fails with a length-mismatch error.
C6_LengthMismatchReported ==
    cpc = "returned" => Len(term1) = Len(term2)

\* C7: for equal-length terms, combine_terms returns the same value for
\* (a, b) and for (b, a).
C7_Symmetry ==
    (cpc = "returned" /\ Len(term1) = Len(term2))
        => combined = combine_terms(term2, term1)

C7_Witness ==
    /\ cpc = "returned"
    /\ Len(term1) = Len(term2)
    /\ term1 # term2
    /\ combined # None
    /\ \E i \in 1..Len(term1) : term1[i] = "-"

\* C8: in every round, every term stored under key k of groups has exactly
\* k '1' symbols, and groups is the partition of the generation by
\* population count.
C8_KeysArePopulationCounts ==
    pc \in {"while", "for"} =>
        /\ \A k \in DOMAIN groups : \A i \in 1..Len(groups[k]) : Ones(groups[k][i]) = k
        /\ DOMAIN groups = {Ones(t) : t \in unchecked}
        /\ \A k \in DOMAIN groups : Range(groups[k]) = {t \in unchecked : Ones(t) = k}

C8_Witness ==
    /\ pc = "for"
    /\ pair = 1
    /\ rounds >= 2
    /\ Cardinality(DOMAIN groups) >= 2

\* C9: when the loop over the adjacent pairs of present keys has finished,
\* every two terms of the generation that differ in exactly one position
\* have been combined and are both marked used, also when a population count
\* between two present keys is absent.
C9_EveryAdjacentPairCombined ==
    (pc = "for" /\ pair > NumPairs(group_keys)) =>
        \A a \in unchecked : \A b \in unchecked :
            Differ(a, b) = 1 =>
                /\ a \in used
                /\ b \in used
                /\ \E i \in 1..Len(a) :
                      a[i] # b[i] /\ Dashed(a, i) \in ChainSet(next_groups)

C9_Witness ==
    /\ pc = "for"
    /\ pair > NumPairs(group_keys)
    /\ used # {}
    /\ \E k \in 1..(Len(group_keys) - 1) : group_keys[k + 1] > group_keys[k] + 1

====
